---- MODULE Spec2Model ----
(***************************************************************************)
(* A model of leanpy: the Lake project state machine (LeanProject), the    *)
(* dependency installer (deps.install_dependency) and the loader that      *)
(* rebuilds the in-memory dependency list from lake-manifest.json and      *)
(* lakefile.toml.                                                          *)
(*                                                                         *)
(* Python values: None is the string "<None>"; a str is a TLA+ string; a   *)
(* list is a sequence.  A URL is kept as the list urlparse(url).path       *)
(* .split("/") sees, with a flag for `bool(url)`.                          *)
(***************************************************************************)
EXTENDS Integers, Sequences, FiniteSets, TLC

VARIABLES
    parent,   \* whether the directory holding the project directories exists
    fs,       \* the project directories on disk: Dirs -> directory state
    objs,     \* the LeanProject objects the caller holds: ObjIds -> object
    last,     \* the most recent call: what was asked, what ran, how it ended
    procs     \* install calls under way in separate processes: where each
              \* one stands and what it has read

vars == <<parent, fs, objs, last, procs>>

-----------------------------------------------------------------------------
(* Bounds of the model.                                                    *)

MaxObjs == 1      \* LeanProject objects alive at once
MaxDeps == 2      \* length of LeanProject.dependencies the model follows
MaxEntries == 2   \* dependency entries in one lakefile.toml
MaxPackages == 2  \* package records in one lake-manifest.json

-----------------------------------------------------------------------------
(* Python values.                                                          *)

None == "<None>"

Truthy(x) == x /= None /\ x /= ""

\* a or b or c
Or3(a, b, c) == IF Truthy(a) THEN a ELSE IF Truthy(b) THEN b ELSE c

\* a URL-valued field: `present` is bool(url), `path` is path.split("/")
NoUrl == [present |-> FALSE, path |-> <<>>]

Url(path) == [present |-> TRUE, path |-> path]

\* the strings str.removesuffix(".git") is applied to are Stems, with or
\* without ".git" behind them
Stems == {"pkg", "lib", "org", "unknown"}

GitSuffixStripped(s) ==
    IF \E n \in Stems : s = n \o ".git"
    THEN CHOOSE n \in Stems : s = n \o ".git"
    ELSE s

\* [p for p in parsed.path.split("/") if p]
RECURSIVE NonEmptyParts(_)
NonEmptyParts(path) ==
    IF path = <<>> THEN <<>>
    ELSE IF Head(path) = "" THEN NonEmptyParts(Tail(path))
    ELSE <<Head(path)>> \o NonEmptyParts(Tail(path))

-----------------------------------------------------------------------------
(* deps.py: LeanDependencyConfig.                                          *)

LeanDependencyConfig(scope, name, version, cache) ==
    [scope |-> scope, name |-> name, version |-> version, cache |-> cache]

\* variant: "@" and the version are added whenever the version is not None
identifier_when_not_none(dep) ==
    LET base == dep.scope \o "/" \o dep.name
    IN  IF dep.version /= None THEN base \o "@" \o dep.version ELSE base

\* "scope/name" or "scope/name@version"
identifier(dep) ==
    LET base == dep.scope \o "/" \o dep.name
    IN  IF Truthy(dep.version) THEN base \o "@" \o dep.version ELSE base

\* the comparison of LeanProject._add_dependency_if_missing
SameDeclaration(a, b) ==
    a.scope = b.scope /\ a.name = b.name /\ a.version = b.version

-----------------------------------------------------------------------------
(* Files.  lakefile.toml is the text before its dependency entries (ok:    *)
(* tomllib accepts it), the entries in file order, and how the text ends:  *)
(* "empty" (no text), "nl" (ends with a newline), "open" (does not).       *)
(* An entry is one [[require]] block or one [dependencies.<name>] table;   *)
(* a key the entry does not have is None.                                  *)

NoFile == [exists |-> FALSE, ok |-> TRUE, tail |-> "empty", entries |-> <<>>]

TomlFile(ok, tail, entries) ==
    [exists |-> TRUE, ok |-> ok, tail |-> tail, entries |-> entries]

Entry(shape, name, scope, rev, branch, tag, git) ==
    [shape |-> shape, name |-> name, scope |-> scope, rev |-> rev,
     branch |-> branch, tag |-> tag, git |-> git]

\* lake-manifest.json: json (json.loads accepts the text), dict (the
\* document is an object) and the elements of its "packages" list; an
\* element that is not an object has dict = FALSE.
NoManifest == [exists |-> FALSE, json |-> TRUE, dict |-> TRUE, packages |-> <<>>]

Manifest(json, dict, packages) ==
    [exists |-> TRUE, json |-> json, dict |-> dict, packages |-> packages]

Package(name, url, git, gitUrl) ==
    [dict |-> TRUE, name |-> name, url |-> url, git |-> git, gitUrl |-> gitUrl]

NotAPackage ==
    [dict |-> FALSE, name |-> None, url |-> NoUrl, git |-> NoUrl, gitUrl |-> NoUrl]

\* a project directory: lakefile.lean, lakefile.toml, lake-manifest.json
\* and `other`, any other entry; isfile: the path is a regular file
NoDir ==
    [exists |-> FALSE, isfile |-> FALSE, lean |-> FALSE, toml |-> NoFile,
     manifest |-> NoManifest, other |-> FALSE]

Dir(lean, toml, manifest, other) ==
    [exists |-> TRUE, isfile |-> FALSE, lean |-> lean, toml |-> toml,
     manifest |-> manifest, other |-> other]

EmptyDir == Dir(FALSE, NoFile, NoManifest, FALSE)

\* a regular file where a project directory is expected
AFile == [EmptyDir EXCEPT !.isfile = TRUE]

\* variant: the directory listing is never looked at
HasEntries_none(d) == FALSE

\* any(self.path.iterdir())
HasEntries(d) == d.lean \/ d.toml.exists \/ d.manifest.exists \/ d.other

\* variant: only lakefile.lean counts as a marker
is_lake_project_lean_only(d) == d.exists /\ d.lean

\* LeanProject._is_lake_project
is_lake_project(d) == d.exists /\ (d.lean \/ d.toml.exists)

-----------------------------------------------------------------------------
(* project.py: loading the dependency list.                                *)

\* variant: every declaration is appended
add_dependency_always(deps, dep) == Append(deps, dep)

\* variant: scope and name decide, the version is not compared
add_dependency_if_missing_by_name(deps, dep) ==
    IF \E k \in 1..Len(deps) :
          deps[k].scope = dep.scope /\ deps[k].name = dep.name
    THEN deps
    ELSE Append(deps, dep)

\* LeanProject._add_dependency_if_missing, on the list `deps`
add_dependency_if_missing(deps, dep) ==
    IF \E k \in 1..Len(deps) : SameDeclaration(deps[k], dep)
    THEN deps
    ELSE Append(deps, dep)

\* the (scope, repo) both URL helpers derive from the last two non-empty
\* path segments, or <<"unknown", fallback>>
ScopeAndRepo(url, fallback) ==
    LET parts == NonEmptyParts(url.path)
    IN  IF url.present /\ Len(parts) >= 2
        THEN <<parts[Len(parts) - 1], GitSuffixStripped(parts[Len(parts)])>>
        ELSE <<"unknown", fallback>>

\* variant: only the "url" key is read
FirstUrl_url_only(pkg) == pkg.url

\* pkg.get("url") or pkg.get("git") or pkg.get("gitUrl") or ""
FirstUrl(pkg) ==
    IF pkg.url.present THEN pkg.url
    ELSE IF pkg.git.present THEN pkg.git
    ELSE pkg.gitUrl

\* LeanProject._extract_scope_and_name
extract_scope_and_name(pkg) == ScopeAndRepo(FirstUrl(pkg), pkg.name)

\* LeanProject._scope_name_from_git
scope_name_from_git(git_url, fallback_name) == ScopeAndRepo(git_url, fallback_name)

\* the loop over data["packages"]; an element that is not an object makes
\* pkg.get raise, and `except Exception: pass` ends the loop there
RECURSIVE ManifestLoop(_, _, _)
ManifestLoop(packages, projName, deps) ==
    IF packages = <<>> THEN deps
    ELSE LET pkg == Head(packages)
             sn == extract_scope_and_name(pkg)
         IN  IF ~pkg.dict THEN deps
             ELSE IF ~Truthy(pkg.name) \/ pkg.name = projName
             THEN ManifestLoop(Tail(packages), projName, deps)
             ELSE ManifestLoop(Tail(packages), projName,
                      add_dependency_if_missing(deps,
                          LeanDependencyConfig(sn[1], sn[2], None, FALSE)))

\* the manifest half of _load_existing_dependencies: json.loads or
\* data.get raising is swallowed as well
LoadManifest(m, projName, deps) ==
    IF ~m.exists \/ ~m.json \/ ~m.dict THEN deps
    ELSE ManifestLoop(m.packages, projName, deps)

\* flush() of _extract_from_toml for one entry: the declarations it adds
Flush(e) ==
    LET scope0 == IF e.scope = None THEN "unknown" ELSE e.scope
        version == Or3(e.rev, e.branch, e.tag)
        fromGit == scope_name_from_git(e.git, IF Truthy(e.name) THEN e.name ELSE "")
        useGit == e.git.present /\ scope0 = "unknown"
        scope == IF useGit THEN fromGit[1] ELSE scope0
        name == IF useGit /\ Truthy(fromGit[2]) THEN fromGit[2] ELSE e.name
    IN  IF Truthy(name)
        THEN <<LeanDependencyConfig(scope, name, version, FALSE)>>
        ELSE <<>>

\* LeanProject._extract_from_toml: a line parser, so it reads a file
\* tomllib rejects as well
RECURSIVE extract_from_toml(_)
extract_from_toml(entries) ==
    IF entries = <<>> THEN <<>>
    ELSE Flush(Head(entries)) \o extract_from_toml(Tail(entries))

RECURSIVE AddAll(_, _)
AddAll(deps, new) ==
    IF new = <<>> THEN deps
    ELSE AddAll(add_dependency_if_missing(deps, Head(new)), Tail(new))

\* LeanProject._load_existing_dependencies, from self.dependencies = []
load_existing_dependencies(d, projName) ==
    LET fromManifest == LoadManifest(d.manifest, projName, <<>>)
    IN  IF d.toml.exists
        THEN AddAll(fromManifest, extract_from_toml(d.toml.entries))
        ELSE fromManifest

-----------------------------------------------------------------------------
(* deps.py: the config file.                                               *)

RequireEntries(file) == SelectSeq(file.entries, LAMBDA e : e.shape = "require")

TableEntries(file) == SelectSeq(file.entries, LAMBDA e : e.shape = "table")

\* variant: every text is taken as TOML
TomlDecodes_always(file) == TRUE

\* tomllib.loads(text) succeeds: the text is TOML and no table is defined
\* twice
TomlDecodes(file) ==
    /\ file.ok
    /\ LET t == TableEntries(file)
       IN  \A j, k \in 1..Len(t) : t[j].name = t[k].name => j = k

PinOf(e) == Or3(e.rev, e.branch, e.tag)

\* variant: scope and name decide, the version is not compared
dependency_exists_any_version(file, dep) ==
    \/ \E k \in 1..Len(RequireEntries(file)) :
          /\ RequireEntries(file)[k].name = dep.name
          /\ RequireEntries(file)[k].scope = dep.scope
    \/ \E k \in 1..Len(TableEntries(file)) :
          /\ TableEntries(file)[k].name = dep.name
          /\ (IF TableEntries(file)[k].scope = None THEN "unknown"
              ELSE TableEntries(file)[k].scope) = dep.scope

\* variant: the version must be equal, None included
dependency_exists_exact(file, dep) ==
    \/ \E k \in 1..Len(RequireEntries(file)) :
          /\ RequireEntries(file)[k].name = dep.name
          /\ RequireEntries(file)[k].scope = dep.scope
          /\ dep.version = PinOf(RequireEntries(file)[k])
    \/ \E k \in 1..Len(TableEntries(file)) :
          /\ TableEntries(file)[k].name = dep.name
          /\ (IF TableEntries(file)[k].scope = None THEN "unknown"
              ELSE TableEntries(file)[k].scope) = dep.scope
          /\ dep.version = PinOf(TableEntries(file)[k])

\* _dependency_exists
dependency_exists(file, dep) ==
    \/ \E k \in 1..Len(RequireEntries(file)) :
          LET entry == RequireEntries(file)[k]
          IN  /\ entry.name = dep.name
              /\ entry.scope = dep.scope
              /\ (dep.version = None \/ dep.version = PinOf(entry))
    \/ \E k \in 1..Len(TableEntries(file)) :
          LET existing_dep == TableEntries(file)[k]
              scope == IF existing_dep.scope = None THEN "unknown"
                       ELSE existing_dep.scope
          IN  /\ existing_dep.name = dep.name
              /\ scope = dep.scope
              /\ (dep.version = None \/ dep.version = PinOf(existing_dep))

\* variant: the block never carries a rev line
RequireBlock_unpinned(dep) ==
    Entry("require", dep.name, dep.scope, None, None, None, NoUrl)

\* the [[require]] block _write_dependency_toml builds
RequireBlock(dep) ==
    Entry("require", dep.name, dep.scope,
          IF Truthy(dep.version) THEN dep.version ELSE None,
          None, None, NoUrl)

\* variant: the block replaces the entries that were there
WriteText_overwrite(file, sep, block) ==
    [file EXCEPT !.tail = "nl", !.entries = <<block>>]

\* text + "\n".join(lines): `sep` says whether lines starts with "".  A
\* block glued to an unfinished last line is no block and no TOML.
WriteText(file, sep, block) ==
    IF file.tail = "open" /\ ~sep
    THEN [file EXCEPT !.ok = FALSE, !.tail = "nl"]
    ELSE [file EXCEPT !.tail = "nl", !.entries = Append(@, block)]

\* _write_dependency_toml: <<outcome, file afterwards>>
write_dependency_toml(file, dep) ==
    IF ~(file.tail = "empty" /\ file.entries = <<>>) /\ ~TomlDecodes(file)
    THEN <<"DependencyError", file>>
    ELSE IF dependency_exists(file, dep)
    THEN <<"present", file>>
    ELSE <<"appended", WriteText(file, file.tail = "open", RequireBlock(dep))>>

-----------------------------------------------------------------------------
(* The toolchain, as the code sees it: a command line, a working           *)
(* directory, an exit code, an output, and what it left on disk.           *)

Dirs == {"p", "q"}   \* the project directories, all in one parent directory

ExitCodes == {0, 1}

\* what `lake init` or `lake new` leaves in its target directory
Scaffolds == {"nothing", "junk", "lean", "toml"}

\* what a failing `lake update` prints
UpdateOutputs == {"unknown option", "unrecognized option", "build failed"}

Cmd(args, cwd, rc, out) == [args |-> args, cwd |-> cwd, rc |-> rc, out |-> out]

Scaffolded(out) ==
    CASE out = "lean" -> Dir(TRUE, NoFile, NoManifest, TRUE)
      [] out = "toml" -> Dir(FALSE, TomlFile(TRUE, "nl", <<>>), NoManifest, TRUE)
      [] OTHER -> Dir(FALSE, NoFile, NoManifest, TRUE)

\* `lake init` with cwd = path, an empty directory
LakeInit(f, path, out) ==
    IF out = "nothing" THEN f ELSE [f EXCEPT ![path] = Scaffolded(out)]

\* `lake new <name>` in the parent directory: it makes <parent>/<name>
\* and leaves an existing directory alone
LakeNew(f, name, out) ==
    IF out = "nothing" \/ name \notin Dirs \/ f[name].exists THEN f
    ELSE [f EXCEPT ![name] = Scaffolded(out)]

\* the lock manifest `lake update` writes for the entries of lakefile.toml
RECURSIVE ResolvedPackages(_)
ResolvedPackages(entries) ==
    IF entries = <<>> THEN <<>>
    ELSE LET e == Head(entries)
             rest == ResolvedPackages(Tail(entries))
         IN  IF ~Truthy(e.name) THEN rest
             ELSE IF e.git.present
             THEN <<Package(e.name, e.git, NoUrl, NoUrl)>> \o rest
             ELSE IF Truthy(e.scope)
             THEN <<Package(e.name, Url(<<"", e.scope, e.name>>), NoUrl, NoUrl)>> \o rest
             ELSE rest

\* a successful `lake update`: it rewrites lake-manifest.json
LakeUpdate(d) ==
    [d EXCEPT !.manifest = Manifest(TRUE, TRUE, ResolvedPackages(d.toml.entries))]

\* `s in str(exc)` for the error _run raises: the message holds the
\* command line and the captured output
Mentions(cmd, s) ==
    \/ \E k \in 1..Len(cmd.args) : cmd.args[k] = s
    \/ cmd.out = s

-----------------------------------------------------------------------------
(* project.py: the constructor.                                            *)

\* a marker file is in the directory
HasMarker(d) == d.exists /\ (d.lean \/ d.toml.exists)

\* the four states of the project state machine, read off the disk, and
\* "not-a-directory" for a path that is a regular file
StateOf(d) ==
    IF ~d.exists THEN "absent"
    ELSE IF d.isfile THEN "not-a-directory"
    ELSE IF d.lean \/ d.toml.exists THEN "valid-project"
    ELSE IF d.manifest.exists \/ d.other THEN "non-empty-invalid"
    ELSE "empty-existing"

\* what an error message tells: which error it is, the directory listing
\* it shows and the commands it reports, each with its command line, exit
\* code and captured output
NoListing == [readable |-> FALSE, names |-> {}]

NoMessage == [kind |-> "none", listing |-> NoListing, trail |-> <<>>]

\* sorted(p.name for p in self.path.iterdir()), or "(unreadable)" when
\* iterdir raises
Listing(d) ==
    IF ~d.exists \/ d.isfile THEN NoListing
    ELSE [readable |-> TRUE,
          names |-> (IF d.lean THEN {"lakefile.lean"} ELSE {})
                    \cup (IF d.toml.exists THEN {"lakefile.toml"} ELSE {})
                    \cup (IF d.manifest.exists THEN {"lake-manifest.json"} ELSE {})
                    \cup (IF d.other THEN {"other"} ELSE {})]

\* what the message shows of one command
Logged(cmd) == [args |-> cmd.args, rc |-> cmd.rc, out |-> cmd.out]

\* the message of _run for a non-zero exit
CommandFailed(cmd) ==
    [kind |-> "command failed", listing |-> NoListing, trail |-> <<Logged(cmd)>>]

\* "Directory ... exists but is not a Lake project and not empty."
NotEmptyMessage ==
    [kind |-> "not a project and not empty", listing |-> NoListing, trail |-> <<>>]

\* variant: the commands that ran are left out of the message
PostCheckMessage_no_commands(d, run_log) ==
    [kind |-> "no lake files", listing |-> Listing(d), trail |-> <<>>]

\* "Expected Lake files not found ... Directory contents: ... Commands run: ..."
PostCheckMessage(d, run_log) ==
    [kind |-> "no lake files", listing |-> Listing(d),
     trail |-> [k \in 1..Len(run_log) |-> Logged(run_log[k])]]

Outcome(result, par, f, cmds, msg) ==
    [result |-> result, parent |-> par, fs |-> f, cmds |-> cmds, msg |-> msg]

\* variant: the check after initialization is left out
PostCheck_skipped(par, f, path, cmds) == Outcome("ok", par, f, cmds, NoMessage)

\* the check behind every initialization path: `if not self._is_lake_project()`
PostCheck(par, f, path, cmds) ==
    IF ~is_lake_project(f[path])
    THEN Outcome("ProjectInitError", par, f, cmds,
                 PostCheckMessage(f[path], cmds))
    ELSE Outcome("ok", par, f, cmds, NoMessage)

\* variant: `lake init` is run in the parent directory
RunInit_in_parent(par, f, path, rc, out) ==
    LET cmds == <<Cmd(<<"lake", "init">>, "parent", rc, "")>>
    IN  IF rc /= 0
        THEN Outcome("ProjectInitError", par, f, cmds, CommandFailed(cmds[1]))
        ELSE PostCheck(par, f, path, cmds)

\* the empty-directory path: self._run(["lake", "init"], cwd=self.path),
\* which raises on a non-zero exit, then the check
RunInit(par, f, path, rc, out) ==
    LET cmds == <<Cmd(<<"lake", "init">>, path, rc, "")>>
        f2 == LakeInit(f, path, out)
    IN  IF rc /= 0
        THEN Outcome("ProjectInitError", par, f2, cmds, CommandFailed(cmds[1]))
        ELSE PostCheck(par, f2, path, cmds)

\* the absent-path path: mkdir of the parent, then
\* self._run(["lake", "new", self.name], cwd=self.path.parent), then the check
RunNew(f, path, name, rc, out) ==
    LET cmds == <<Cmd(<<"lake", "new", name>>, "parent", rc, "")>>
        f2 == LakeNew(f, name, out)
    IN  IF rc /= 0
        THEN Outcome("ProjectInitError", TRUE, f2, cmds, CommandFailed(cmds[1]))
        ELSE PostCheck(TRUE, f2, path, cmds)

\* LeanProject._init_or_reuse; rc and out are what the one command it may
\* run does.  iterdir() on a regular file raises NotADirectoryError.
init_or_reuse(par, f, path, name, rc, out) ==
    IF f[path].exists
    THEN IF is_lake_project(f[path]) THEN Outcome("ok", par, f, <<>>, NoMessage)
         ELSE IF f[path].isfile
         THEN Outcome("NotADirectoryError", par, f, <<>>, NoMessage)
         ELSE IF HasEntries(f[path])
         THEN Outcome("ProjectInitError", par, f, <<>>, NotEmptyMessage)
         ELSE RunInit(par, f, path, rc, out)
    ELSE RunNew(f, path, name, rc, out)

NoObj == [alive |-> FALSE, path |-> None, name |-> None, dependencies |-> <<>>]

Obj(path, name, deps) ==
    [alive |-> TRUE, path |-> path, name |-> name, dependencies |-> deps]

\* LeanProject.__init__: `found` is what shutil.which finds on PATH.
\* The result carries the new object when the constructor returns.
LeanProject(par, f, path, nameArg, found, rc, out) ==
    LET name == IF Truthy(nameArg) THEN nameArg ELSE path
        r == init_or_reuse(par, f, path, name, rc, out)
        none == [result |-> "", parent |-> par, fs |-> f, cmds |-> <<>>,
                 msg |-> NoMessage, name |-> name, obj |-> NoObj]
    IN  IF "lean" \notin found THEN [none EXCEPT !.result = "LeanNotFound"]
        ELSE IF "lake" \notin found THEN [none EXCEPT !.result = "LakeNotFound"]
        ELSE [result |-> r.result, parent |-> r.parent, fs |-> r.fs,
              cmds |-> r.cmds, msg |-> r.msg, name |-> name,
              obj |-> IF r.result = "ok"
                      THEN Obj(path, name,
                               load_existing_dependencies(r.fs[path], name))
                      ELSE NoObj]

-----------------------------------------------------------------------------
(* deps.py: install_dependency.                                            *)

\* update_with_fallback: <<the update succeeded, the commands run>>
update_with_fallback(path, rc1, out1, rc2, out2) ==
    LET first == Cmd(<<"lake", "update", "--reconfigure">>, path, rc1,
                     IF rc1 = 0 THEN "" ELSE out1)
        second == Cmd(<<"lake", "update">>, path, rc2,
                      IF rc2 = 0 THEN "" ELSE out2)
    IN  IF rc1 = 0 THEN <<TRUE, <<first>>>>
        ELSE IF \/ Mentions(first, "--reconfigure")
                \/ Mentions(first, "unknown option")
                \/ Mentions(first, "unrecognized option")
        THEN <<rc2 = 0, <<first, second>>>>
        ELSE <<FALSE, <<first>>>>

\* "Invalid TOML in <lakefile>: ..."
InvalidTomlMessage ==
    [kind |-> "invalid toml", listing |-> NoListing, trail |-> <<>>]

\* variant: the prefetch runs whether or not the declaration asks for it
cache_prefetch_always(dep, path, rcCache) ==
    <<Cmd(<<"lake", "exe", "cache", "get">>, path, rcCache, "")>>

\* `if dep.cache: subprocess.run(["lake", "exe", "cache", "get"], ...,
\* check=False)`: the commands it runs; the exit code is not looked at
cache_prefetch(dep, path, rcCache) ==
    IF dep.cache
    THEN <<Cmd(<<"lake", "exe", "cache", "get">>, path, rcCache, "")>>
    ELSE <<>>

\* deps.install_dependency(project_path, dep); rc1, out1, rc2, out2 and
\* rcCache are what the toolchain does
install_dependency(f, path, dep, rc1, out1, rc2, out2, rcCache) ==
    LET d == f[path]
        toml0 == IF d.toml.exists THEN d.toml ELSE TomlFile(TRUE, "nl", <<>>)
        w == write_dependency_toml(toml0, dep)
        d1 == [d EXCEPT !.toml = w[2]]
        upd == update_with_fallback(path, rc1, out1, rc2, out2)
    IN  IF ~d.exists \/ d.isfile
        THEN [result |-> IF d.isfile THEN "NotADirectoryError"
                         ELSE "FileNotFoundError",
              fs |-> f, cmds |-> <<>>, file |-> None, msg |-> NoMessage]
        ELSE IF w[1] = "DependencyError"
        THEN [result |-> "DependencyError", fs |-> [f EXCEPT ![path] = d1],
              cmds |-> <<>>, file |-> w[1], msg |-> InvalidTomlMessage]
        ELSE IF ~upd[1]
        THEN [result |-> "DependencyError", fs |-> [f EXCEPT ![path] = d1],
              cmds |-> upd[2], file |-> w[1],
              msg |-> CommandFailed(upd[2][Len(upd[2])])]
        ELSE [result |-> "ok",
              fs |-> [f EXCEPT ![path] = LakeUpdate(d1)],
              cmds |-> upd[2] \o cache_prefetch(dep, path, rcCache),
              file |-> w[1], msg |-> NoMessage]

-----------------------------------------------------------------------------
(* The calls a program makes.                                              *)

ObjIds == 1..MaxObjs

NoDep == LeanDependencyConfig(None, None, None, FALSE)

Call(op, obj, path, name, dep, start, result, file, cmds, msg) ==
    [op |-> op, obj |-> obj, path |-> path, name |-> name, dep |-> dep,
     start |-> start, result |-> result, file |-> file, cmds |-> cmds,
     msg |-> msg]

\* the declarations the project-level calls install
ProjectDeps ==
    { LeanDependencyConfig("org", "pkg", None, FALSE),
      LeanDependencyConfig("org", "pkg", "v1", TRUE) }

\* the declarations the file-level calls install
InstallDeps ==
    { LeanDependencyConfig("org", "pkg", v, FALSE) : v \in {None, "", "v1", "v2"} }
    \cup { LeanDependencyConfig("org", "pkg", "v1", TRUE),
           LeanDependencyConfig("unknown", "pkg", None, FALSE),
           LeanDependencyConfig("unknown", "lib", None, TRUE),
           LeanDependencyConfig("org", "lib", "v2", FALSE) }

\* what shutil.which may find: no lean, lean but no lake, both
Paths == {{"lake"}, {"lean"}, {"lean", "lake"}}

\* what a constructor over a directory in state st can meet: what is on
\* PATH and, when it gets to run `lake init` or `lake new`, what that
\* command does
ScaffoldRuns(st) ==
    { t \in [found : Paths, rc : ExitCodes, out : Scaffolds] :
        \/ /\ t.found = {"lean", "lake"}
           /\ st \in {"absent", "empty-existing"}
        \/ t.rc = 0 /\ t.out = "nothing" }

\* objs[i] = LeanProject(path, name)
Construct(i, path, nameArg) ==
    \E t \in ScaffoldRuns(StateOf(fs[path])) :
        LET r == LeanProject(parent, fs, path, nameArg, t.found, t.rc, t.out)
        IN  /\ parent' = r.parent
            /\ fs' = r.fs
            /\ objs' = IF r.result = "ok" THEN [objs EXCEPT ![i] = r.obj] ELSE objs
            /\ last' = Call("construct", i, path, r.name, NoDep,
                            StateOf(fs[path]), r.result, None, r.cmds, r.msg)
            /\ UNCHANGED procs

\* "Destination ... already exists; cannot clone."
DestinationExistsMessage ==
    [kind |-> "destination exists", listing |-> NoListing, trail |-> <<>>]

\* "Failed to clone project to ...: ..."
CopyFailedMessage ==
    [kind |-> "copy failed", listing |-> NoListing, trail |-> <<>>]

\* variant: an empty directory does not count as an existing destination
PathExists_non_empty(d) ==
    d.exists /\ (d.isfile \/ d.lean \/ d.toml.exists \/ d.manifest.exists \/ d.other)

\* dest.exists(): a file or a directory, empty or not
PathExists(d) == d.exists

\* variant: the source is moved, not copied
copytree_moves(f, src, dest, copied) ==
    IF ~f[src].exists THEN <<FALSE, f>>
    ELSE IF ~copied THEN <<FALSE, [f EXCEPT ![dest] = EmptyDir]>>
    ELSE <<TRUE, [f EXCEPT ![dest] = f[src], ![src] = NoDir]>>

\* shutil.copytree(self.path, dest), dest absent: <<it got through, the
\* disk afterwards>>.  A missing source raises before anything is made; a
\* copy that breaks off leaves a part of the tree (here: the bare directory).
copytree(f, src, dest, copied) ==
    IF ~f[src].exists THEN <<FALSE, f>>
    ELSE IF ~copied THEN <<FALSE, [f EXCEPT ![dest] = EmptyDir]>>
    ELSE <<TRUE, [f EXCEPT ![dest] = f[src]]>>

\* objs[j] = objs[i].clone(dest, new_name); copied is whether
\* shutil.copytree gets through
Clone(i, j, dest, newName) ==
    /\ objs[i].alive
    /\ UNCHANGED procs
    /\ \E copied \in BOOLEAN :
       \E t \in ScaffoldRuns(IF copied /\ ~fs[dest].exists
                             THEN StateOf(fs[objs[i].path]) ELSE "none") :
        LET c == copytree(fs, objs[i].path, dest, copied)
            r == LeanProject(TRUE, c[2], dest,
                             IF Truthy(newName) THEN newName ELSE dest,
                             t.found, t.rc, t.out)
            call(result, cmds, msg) ==
                Call("clone", j, dest, r.name, NoDep, StateOf(fs[dest]),
                     result, None, cmds, msg)
        IN  IF PathExists(fs[dest])
            THEN /\ last' = call("ProjectInitError", <<>>, DestinationExistsMessage)
                 /\ UNCHANGED <<parent, fs, objs>>
            ELSE IF ~c[1]
            THEN /\ last' = call("ProjectInitError", <<>>, CopyFailedMessage)
                 /\ fs' = c[2]
                 /\ UNCHANGED <<parent, objs>>
            ELSE /\ last' = call(r.result, r.cmds, r.msg)
                 /\ parent' = r.parent
                 /\ fs' = r.fs
                 /\ objs' = IF r.result = "ok" THEN [objs EXCEPT ![j] = r.obj]
                            ELSE objs

\* what one install can meet: the exit code and output of the first update,
\* the exit code of a second one, the exit code of the cache prefetch
UpdateRuns(dep) ==
    { t \in [rc1 : ExitCodes, out1 : UpdateOutputs, rc2 : ExitCodes,
             rcCache : ExitCodes] :
        /\ t.rc1 = 0 => t.out1 = "build failed" /\ t.rc2 = 0
        /\ ~dep.cache => t.rcCache = 0 }

\* the file keeps to the model's bound
WithinBound(f, path) == Len(f[path].toml.entries) <= MaxEntries

\* objs[i].install_dependency(dep)
InstallDependency(i, dep) ==
    /\ objs[i].alive
    /\ Len(objs[i].dependencies) < MaxDeps
    /\ \E t \in UpdateRuns(dep) :
        LET path == objs[i].path
            r == install_dependency(fs, path, dep, t.rc1, t.out1, t.rc2,
                                    t.out1, t.rcCache)
        IN  /\ WithinBound(r.fs, path)
            /\ fs' = r.fs
            /\ objs' = IF r.result = "ok"
                       THEN [objs EXCEPT ![i].dependencies = Append(@, dep)]
                       ELSE objs
            /\ last' = Call("install_dependency", i, path, objs[i].name, dep,
                            StateOf(fs[path]), r.result, r.file, r.cmds, r.msg)
            /\ UNCHANGED <<parent, procs>>

\* deps.install_dependency(path, dep), called on its own
Install(path, dep) ==
    \E t \in UpdateRuns(dep) :
        LET r == install_dependency(fs, path, dep, t.rc1, t.out1, t.rc2,
                                    t.out1, t.rcCache)
        IN  /\ WithinBound(r.fs, path)
            /\ fs' = r.fs
            /\ last' = Call("install", 0, path, None, dep, StateOf(fs[path]),
                            r.result, r.file, r.cmds, r.msg)
            /\ UNCHANGED <<parent, objs, procs>>

\* objs[i].remove()
Remove(i) ==
    /\ objs[i].alive
    /\ fs' = [fs EXCEPT ![objs[i].path] = NoDir]
    /\ last' = Call("remove", i, objs[i].path, objs[i].name, NoDep,
                    StateOf(fs[objs[i].path]), "ok", None, <<>>, NoMessage)
    /\ UNCHANGED <<parent, objs, procs>>

-----------------------------------------------------------------------------
(* The project life cycle: directories in any of the four states, then     *)
(* constructors, clones, installs and removals.                            *)

OrgPkg(rev) == Entry("require", "pkg", "org", rev, None, None, NoUrl)

GoodManifest ==
    Manifest(TRUE, TRUE,
        << Package("p", NoUrl, NoUrl, NoUrl),
           Package("pkg", Url(<<"", "org", "pkg.git">>), NoUrl, NoUrl) >>)

\* a "packages" list whose second element is not an object
BrokenManifest ==
    Manifest(TRUE, TRUE,
        << Package("lib", Url(<<"", "org", "lib">>), NoUrl, NoUrl),
           NotAPackage,
           Package("pkg", Url(<<"", "org", "pkg.git">>), NoUrl, NoUrl) >>)

Skeleton == TomlFile(TRUE, "nl", <<>>)

StartDirs ==
    { NoDir,
      EmptyDir,
      AFile,
      Dir(FALSE, NoFile, NoManifest, TRUE),
      Dir(TRUE, NoFile, NoManifest, TRUE),
      Dir(FALSE, Skeleton, NoManifest, TRUE),
      Dir(FALSE, TomlFile(TRUE, "nl", <<OrgPkg(None)>>), GoodManifest, TRUE),
      Dir(FALSE, Skeleton, BrokenManifest, TRUE),
      Dir(TRUE, NoFile, Manifest(FALSE, TRUE, <<>>), FALSE) }

\* the processes that run install_dependency side by side, and one that
\* has not been started
Procs == {1, 2}

NoProc ==
    [pc |-> "idle", dep |-> NoDep, text |-> NoFile, file |-> None,
     result |-> None, cmds |-> <<>>]

NoProcs == [k \in Procs |-> NoProc]

NoCall ==
    Call("none", 0, None, None, NoDep, "absent", "ok", None, <<>>, NoMessage)

Init ==
    /\ parent \in BOOLEAN
    /\ fs \in [Dirs -> StartDirs]
    /\ ~parent => \A d \in Dirs : ~fs[d].exists
    /\ objs = [i \in ObjIds |-> NoObj]
    /\ last = NoCall
    /\ procs = NoProcs

Next ==
    \/ \E i \in ObjIds, path \in Dirs, nameArg \in Dirs \cup {None} :
          Construct(i, path, nameArg)
    \/ \E i, j \in ObjIds, dest \in Dirs, newName \in Dirs \cup {None} :
          Clone(i, j, dest, newName)
    \/ \E i \in ObjIds : Remove(i)

Spec == Init /\ [][Next]_vars

-----------------------------------------------------------------------------
(* One project that installs dependencies: a valid project directory, a    *)
(* constructor over it, then install_dependency calls.                     *)

InitProject ==
    /\ parent = TRUE
    /\ fs \in [Dirs -> StartDirs]
    /\ is_lake_project(fs["p"])
    /\ fs["q"] = NoDir
    /\ objs = [i \in ObjIds |-> NoObj]
    /\ last = NoCall
    /\ procs = NoProcs

NextProject ==
    \/ \E i \in ObjIds : Construct(i, "p", None)
    \/ \E i \in ObjIds, dep \in ProjectDeps : InstallDependency(i, dep)
    \/ \E i \in ObjIds : Remove(i)

SpecProject == InitProject /\ [][NextProject]_vars

-----------------------------------------------------------------------------
(* deps.install_dependency on its own, over config files of every shape.   *)

StartFiles ==
    { NoFile,
      TomlFile(TRUE, "empty", <<>>),
      TomlFile(TRUE, "open", <<>>),
      TomlFile(FALSE, "nl", <<>>),
      TomlFile(TRUE, "nl", <<OrgPkg("v1")>>),
      TomlFile(TRUE, "open", <<OrgPkg(None)>>),
      TomlFile(TRUE, "nl",
          <<Entry("table", "pkg", None, None, "v1", None,
                  Url(<<"", "org", "pkg.git">>))>>),
      TomlFile(TRUE, "nl",
          <<Entry("table", "lib", "org", None, None, "v2", NoUrl)>>),
      TomlFile(TRUE, "nl",
          <<Entry("table", "pkg", "org", None, None, None, NoUrl),
            Entry("table", "pkg", "org", "v1", None, None, NoUrl)>>),
      TomlFile(TRUE, "nl",
          <<Entry("require", "lib", None, None, None, None,
                  Url(<<"", "org", "lib", "">>))>>) }

InitInstall ==
    /\ parent = TRUE
    /\ \E t \in StartFiles :
          fs = [d \in Dirs |-> IF d = "p" THEN Dir(FALSE, t, NoManifest, TRUE)
                                ELSE NoDir]
    /\ objs = [i \in ObjIds |-> NoObj]
    /\ last = NoCall
    /\ procs = NoProcs

NextInstall == \E dep \in InstallDeps : Install("p", dep)

SpecInstall == InitInstall /\ [][NextInstall]_vars

-----------------------------------------------------------------------------
(* Loading on its own: a project directory whose lake-manifest.json and    *)
(* lakefile.toml hold every combination of a few records and entries, and  *)
(* constructors over it, under the default name and under the name of one  *)
(* of the packages.                                                        *)

SeqsUpTo(S, n) == UNION { [1..k -> S] : k \in 0..n }

LoadPackages ==
    { Package("p", Url(<<"", "org", "p">>), NoUrl, NoUrl),
      Package("pkg", Url(<<"", "org", "pkg.git">>), NoUrl, NoUrl),
      Package("pkg", NoUrl, Url(<<"", "org", "", "pkg", "">>), NoUrl),
      Package("lib", NoUrl, NoUrl, Url(<<"", "lib">>)),
      Package("lib", NoUrl, NoUrl, NoUrl),
      Package("", Url(<<"", "org", "lib">>), NoUrl, NoUrl) }

LoadEntries ==
    { OrgPkg(None),
      OrgPkg("v1"),
      Entry("table", "pkg", None, None, "v1", None,
            Url(<<"", "org", "pkg.git">>)),
      Entry("table", "lib", None, None, None, None, NoUrl) }

InitLoad ==
    /\ parent = TRUE
    /\ \E m \in {NoManifest}
                 \cup { Manifest(TRUE, TRUE, ps) :
                          ps \in SeqsUpTo(LoadPackages, MaxPackages) },
          t \in {NoFile}
                 \cup { TomlFile(TRUE, "nl", es) :
                          es \in SeqsUpTo(LoadEntries, MaxEntries) } :
          fs = [d \in Dirs |-> IF d = "p" THEN Dir(TRUE, t, m, TRUE) ELSE NoDir]
    /\ objs = [i \in ObjIds |-> NoObj]
    /\ last = NoCall
    /\ procs = NoProcs

NextLoad == \E i \in ObjIds, nameArg \in {None, "pkg"} : Construct(i, "p", nameArg)

SpecLoad == InitLoad /\ [][NextLoad]_vars

-----------------------------------------------------------------------------
(* Install, then a constructor over the same path: a project as `lake      *)
(* init` leaves it, with lakefile.lean or with lakefile.toml, then         *)
(* installs from the project root and constructors that load what the      *)
(* installs wrote.                                                         *)

InitRoundTrip ==
    /\ parent = TRUE
    /\ \E out \in {"lean", "toml"} :
          fs = [d \in Dirs |-> IF d = "p" THEN Scaffolded(out) ELSE NoDir]
    /\ objs = [i \in ObjIds |-> NoObj]
    /\ last = NoCall
    /\ procs = NoProcs

NextRoundTrip ==
    \/ \E dep \in InstallDeps : Install("p", dep)
    \/ \E i \in ObjIds : Construct(i, "p", None)

SpecRoundTrip == InitRoundTrip /\ [][NextRoundTrip]_vars

-----------------------------------------------------------------------------
(* The identifier property, read off declarations of every shape.          *)

IdentifierDeps ==
    { LeanDependencyConfig(scope, name, version, cache) :
        scope \in {"org", "unknown", "leanprover-community", "o"},
        name \in {"pkg", "lib", "mathlib", "p"},
        version \in {None, "", "v1", "1.2.3"},
        cache \in BOOLEAN }

\* dep.identifier
Identify(dep) ==
    /\ last' = Call("identifier", 0, None, None, dep, "absent",
                    identifier(dep), None, <<>>, NoMessage)
    /\ UNCHANGED <<parent, fs, objs, procs>>

InitIdentifier ==
    /\ parent = TRUE
    /\ fs = [d \in Dirs |-> NoDir]
    /\ objs = [i \in ObjIds |-> NoObj]
    /\ last = NoCall
    /\ procs = NoProcs

NextIdentifier == \E dep \in IdentifierDeps : Identify(dep)

SpecIdentifier == InitIdentifier /\ [][NextIdentifier]_vars

-----------------------------------------------------------------------------
(* Two install_dependency calls on one project root, each in a process of  *)
(* its own.  A call is a row of steps: the exists() test, the write of the *)
(* skeleton, the read of the whole file, the check and the write of the    *)
(* whole file, the toolchain commands.  The steps of the two calls         *)
(* interleave freely; nothing is locked.                                   *)

ConcurrentDeps ==
    { LeanDependencyConfig("org", "pkg", None, FALSE),
      LeanDependencyConfig("org", "pkg", "v1", TRUE),
      LeanDependencyConfig("org", "lib", "v2", FALSE) }

ConcurrentFiles ==
    { NoFile,
      Skeleton,
      TomlFile(TRUE, "nl", <<OrgPkg("v1")>>),
      TomlFile(FALSE, "nl", <<>>) }

Started(dep) == [NoProc EXCEPT !.pc = "start", !.dep = dep]

\* `if not lakefile_toml.exists():`
CheckConfig(k) ==
    /\ procs[k].pc = "start"
    /\ procs' = [procs EXCEPT ![k].pc = IF fs["p"].toml.exists THEN "read"
                                        ELSE "create"]
    /\ UNCHANGED <<parent, fs, objs, last>>

\* lakefile_toml.write_text("[package]\n")
CreateConfig(k) ==
    /\ procs[k].pc = "create"
    /\ fs' = [fs EXCEPT !["p"].toml = TomlFile(TRUE, "nl", <<>>)]
    /\ procs' = [procs EXCEPT ![k].pc = "read"]
    /\ UNCHANGED <<parent, objs, last>>

\* text = lakefile.read_text()
ReadConfig(k) ==
    /\ procs[k].pc = "read"
    /\ procs' = [procs EXCEPT ![k].pc = "write", ![k].text = fs["p"].toml]
    /\ UNCHANGED <<parent, fs, objs, last>>

\* variant: the file is read again, under a lock, when it is written
WrittenText_locked(text, current, dep) == write_dependency_toml(current, dep)

\* what _write_dependency_toml makes of the text it read; the file as it
\* is by now (`current`) is not looked at
WrittenText(text, current, dep) == write_dependency_toml(text, dep)

\* variant: the update is left out when the entry was there already
AfterWrite_skip_present(outcome) ==
    IF outcome = "appended" THEN "update" ELSE "done"

\* where install_dependency goes after _write_dependency_toml: a raise ends
\* the call, a return, with or without a write, leads to the update
AfterWrite(outcome) ==
    IF outcome = "DependencyError" THEN "done" ELSE "update"

\* the check and lakefile.write_text(text + block)
WriteConfig(k) ==
    /\ procs[k].pc = "write"
    /\ LET w == WrittenText(procs[k].text, fs["p"].toml, procs[k].dep)
       IN  /\ fs' = IF w[1] = "appended" THEN [fs EXCEPT !["p"].toml = w[2]]
                    ELSE fs
           /\ procs' = [procs EXCEPT
                           ![k].pc = AfterWrite(w[1]),
                           ![k].file = w[1],
                           ![k].result = IF w[1] = "DependencyError"
                                         THEN "DependencyError" ELSE None]
    /\ UNCHANGED <<parent, objs, last>>

\* update_with_fallback() and the cache prefetch
RunUpdate(k) ==
    /\ procs[k].pc = "update"
    /\ \E t \in UpdateRuns(procs[k].dep) :
          LET upd == update_with_fallback("p", t.rc1, t.out1, t.rc2, t.out1)
          IN  /\ fs' = IF upd[1] THEN [fs EXCEPT !["p"] = LakeUpdate(@)] ELSE fs
              /\ procs' = [procs EXCEPT
                              ![k].pc = "done",
                              ![k].result = IF upd[1] THEN "ok"
                                            ELSE "DependencyError",
                              ![k].cmds =
                                  IF upd[1]
                                  THEN upd[2] \o cache_prefetch(procs[k].dep,
                                                                "p", t.rcCache)
                                  ELSE upd[2]]
    /\ UNCHANGED <<parent, objs, last>>

InitConcurrent ==
    /\ parent = TRUE
    /\ \E t \in ConcurrentFiles :
          fs = [d \in Dirs |-> IF d = "p" THEN Dir(FALSE, t, NoManifest, TRUE)
                                ELSE NoDir]
    /\ objs = [i \in ObjIds |-> NoObj]
    /\ last = NoCall
    /\ \E deps \in [Procs -> ConcurrentDeps] :
          /\ \A j, k \in Procs : deps[j] = deps[k] => j = k
          /\ procs = [k \in Procs |-> Started(deps[k])]

NextConcurrent ==
    \/ \E k \in Procs : CheckConfig(k)
    \/ \E k \in Procs : CreateConfig(k)
    \/ \E k \in Procs : ReadConfig(k)
    \/ \E k \in Procs : WriteConfig(k)
    \/ \E k \in Procs : RunUpdate(k)

SpecConcurrent == InitConcurrent /\ [][NextConcurrent]_vars

-----------------------------------------------------------------------------
(* Properties of the constructor (Spec).                                   *)

\* the call got past the PATH checks of __init__
PastPathChecks(call) == call.result \notin {"LeanNotFound", "LakeNotFound"}

\* C1: whenever the constructor returns normally, directly or through
\* clone, the project path holds a marker file, whatever the toolchain did.
C1_MarkerAfterConstruction ==
    (last.op \in {"construct", "clone"} /\ last.result = "ok")
        => /\ HasMarker(fs[last.path])
           /\ objs[last.obj].alive
           /\ objs[last.obj].path = last.path

C1_Witness ==
    /\ last.op = "construct"
    /\ last.start = "absent"
    /\ last.result = "ok"
    /\ Len(last.cmds) = 1

\* C2: a constructor over a directory with entries and no marker raises
\* ProjectInitError, runs no command and changes nothing on disk.
C2_NonEmptyInvalidFails ==
    [][ ( /\ last'.op = "construct"
          /\ last'.start = "non-empty-invalid"
          /\ PastPathChecks(last') )
        => ( /\ last'.result = "ProjectInitError"
             /\ last'.cmds = <<>>
             /\ fs' = fs
             /\ parent' = parent
             /\ objs' = objs ) ]_vars

C2_Witness ==
    /\ last.op = "construct"
    /\ last.start = "non-empty-invalid"
    /\ last.result = "ProjectInitError"
    /\ StateOf(fs[last.path]) = "non-empty-invalid"

\* C3: a constructor over a directory with a marker succeeds, runs no
\* command and changes nothing on disk; the one effect is the new object,
\* with the dependencies loaded from the disk as it is.  Every such call,
\* the first or a repeated one, is a step of this kind.
C3_ReuseIsReadOnly ==
    [][ ( /\ last'.op = "construct"
          /\ last'.start = "valid-project"
          /\ PastPathChecks(last') )
        => ( /\ last'.result = "ok"
             /\ last'.cmds = <<>>
             /\ fs' = fs
             /\ parent' = parent
             /\ objs'[last'.obj] =
                    Obj(last'.path, last'.name,
                        load_existing_dependencies(fs[last'.path], last'.name))
             /\ \A k \in ObjIds \ {last'.obj} : objs'[k] = objs[k] ) ]_vars

C3_Witness ==
    /\ last.op = "construct"
    /\ last.start = "valid-project"
    /\ last.result = "ok"
    /\ fs[last.path].toml.exists
    /\ objs[last.obj].dependencies /= <<>>

\* the scaffold command did its work: exit code 0 and a project, marker
\* included, in <parent>/<name>
ScaffoldMade(call, before, after) ==
    /\ call.cmds[1].rc = 0
    /\ ~before[call.name].exists
    /\ HasMarker(after[call.name])

\* C4: a constructor over an absent path makes the parent directory, runs
\* `lake new <name>` once in the parent and nothing else, and when that
\* command succeeded returns with a marker at the project path, for the
\* default name and for any explicit name.
C4_AbsentIsScaffolded ==
    [][ ( /\ last'.op = "construct"
          /\ last'.start = "absent"
          /\ PastPathChecks(last') )
        => ( /\ parent'
             /\ Len(last'.cmds) = 1
             /\ last'.cmds[1].args = <<"lake", "new", last'.name>>
             /\ last'.cmds[1].cwd = "parent"
             /\ ScaffoldMade(last', fs, fs')
                    => /\ last'.result = "ok"
                       /\ HasMarker(fs'[last'.path]) ) ]_vars

\* C5: a constructor over an empty directory runs `lake init` once, in
\* that directory, and nothing else; when the command exits 0 and a marker
\* is there, the constructor returns the project.
C5_EmptyIsInitialized ==
    [][ ( /\ last'.op = "construct"
          /\ last'.start = "empty-existing"
          /\ PastPathChecks(last') )
        => ( /\ Len(last'.cmds) = 1
             /\ last'.cmds[1].args = <<"lake", "init">>
             /\ last'.cmds[1].cwd = last'.path
             /\ (last'.cmds[1].rc = 0 /\ HasMarker(fs'[last'.path]))
                    => /\ last'.result = "ok"
                       /\ objs'[last'.obj].alive
                       /\ objs'[last'.obj].path = last'.path ) ]_vars

C5_Witness ==
    /\ last.op = "construct"
    /\ last.start = "empty-existing"
    /\ last.result = "ok"
    /\ last.cmds[1].args = <<"lake", "init">>

\* lake-manifest.json is there and is not a document with a list of
\* package objects
Malformed(m) ==
    /\ m.exists
    /\ \/ ~m.json
       \/ ~m.dict
       \/ \E k \in 1..Len(m.packages) : ~m.packages[k].dict

\* C10: with a malformed lake-manifest.json the constructor does not
\* return: it raises instead of keeping none or a part of the records.
C10_MalformedManifestIsFatal ==
    (last.op \in {"construct", "clone"} /\ last.result = "ok")
        => ~Malformed(fs[last.path].manifest)

-----------------------------------------------------------------------------
(* Properties of LeanProject.dependencies (SpecProject).                   *)

\* C6: the dependency list of a project never holds two declarations with
\* the same scope, name and version.
C6_NoDuplicateDeclarations ==
    \A i \in ObjIds :
        \A j, k \in 1..Len(objs[i].dependencies) :
            SameDeclaration(objs[i].dependencies[j], objs[i].dependencies[k])
                => j = k

-----------------------------------------------------------------------------
(* Properties of install_dependency on the config file (SpecInstall).      *)

\* the scope an entry declares; a [dependencies.<name>] table without a
\* scope key counts as "unknown"
EntryScope(e) ==
    IF e.shape = "table" /\ e.scope = None THEN "unknown" ELSE e.scope

\* the entry is for the scope and name of dep
EntryFor(e, dep) == e.name = dep.name /\ EntryScope(e) = dep.scope

ConfigOf(f, call) == f[call.path].toml

\* C7: a second install of the declaration just installed leaves
\* lakefile.toml as it is.
C7_InstallIsIdempotent ==
    [][ ( /\ last.op = "install"
          /\ last'.op = "install"
          /\ last'.path = last.path
          /\ last'.dep = last.dep )
        => ConfigOf(fs', last') = ConfigOf(fs, last') ]_vars

\* the file has an entry for dep's scope and name with another pin
HasOtherPin(file, dep) ==
    \E k \in 1..Len(file.entries) :
        /\ EntryFor(file.entries[k], dep)
        /\ Truthy(PinOf(file.entries[k]))
        /\ PinOf(file.entries[k]) /= dep.version

\* the file has an entry for dep's scope and name with dep's pin
HasSamePin(file, dep) ==
    \E k \in 1..Len(file.entries) :
        /\ EntryFor(file.entries[k], dep)
        /\ PinOf(file.entries[k]) = dep.version

\* an install of a pinned declaration into a file that decodes and has an
\* entry for the same scope and name with a different pin
PinnedOverOtherPin(call, file) ==
    /\ call.op = "install"
    /\ Truthy(call.dep.version)
    /\ file.exists
    /\ TomlDecodes(file)
    /\ HasOtherPin(file, call.dep)

\* C8, as claimed: such an install appends nothing.
C8_OtherPinAppendsNothing ==
    [][ PinnedOverOtherPin(last', ConfigOf(fs, last'))
        => ConfigOf(fs', last') = ConfigOf(fs, last') ]_vars

\* C8, amended: such an install leaves the existing entries alone and,
\* unless the file has an entry with the requested pin as well, appends one
\* [[require]] block with the requested pin.
C8_OtherPinAppendsBlock ==
    [][ PinnedOverOtherPin(last', ConfigOf(fs, last'))
        => LET old == ConfigOf(fs, last')
               new == ConfigOf(fs', last')
               dep == last'.dep
           IN  IF HasSamePin(old, dep)
               THEN new = old
               ELSE /\ new.entries =
                          Append(old.entries,
                                 Entry("require", dep.name, dep.scope,
                                       dep.version, None, None, NoUrl))
                    /\ new.ok = old.ok
                    /\ last'.file = "appended" ]_vars

C8_Witness ==
    /\ last.op = "install"
    /\ last.file = "appended"
    /\ Truthy(last.dep.version)
    /\ Len(fs[last.path].toml.entries) = 2
    /\ EntryFor(fs[last.path].toml.entries[1], last.dep)
    /\ Truthy(PinOf(fs[last.path].toml.entries[1]))
    /\ PinOf(fs[last.path].toml.entries[1]) /= last.dep.version
    /\ fs[last.path].toml.entries[2].rev = last.dep.version

\* C9: an install of a declaration without a version (None) into a file
\* that decodes and has an entry for the same scope and name, of either
\* shape, pinned or not, finds the entry and leaves the file as it is.
C9_UnpinnedMatchesAnyPin ==
    [][ ( /\ last'.op = "install"
          /\ last'.dep.version = None
          /\ TomlDecodes(ConfigOf(fs, last'))
          /\ \E k \in 1..Len(ConfigOf(fs, last').entries) :
                EntryFor(ConfigOf(fs, last').entries[k], last'.dep) )
        => ( /\ last'.file = "present"
             /\ ConfigOf(fs', last') = ConfigOf(fs, last') ) ]_vars

C9_Witness ==
    /\ last.op = "install"
    /\ last.dep.version = None
    /\ last.file = "present"
    /\ \E k \in 1..Len(fs[last.path].toml.entries) :
          /\ fs[last.path].toml.entries[k].shape = "table"
          /\ EntryFor(fs[last.path].toml.entries[k], last.dep)
          /\ Truthy(PinOf(fs[last.path].toml.entries[k]))

-----------------------------------------------------------------------------
(* Properties of the update step of install_dependency (SpecInstall).      *)

\* the `lake update` commands a call ran, in order
UpdateCommands(call) ==
    SelectSeq(call.cmds, LAMBDA c : c.args[1] = "lake" /\ c.args[2] = "update")

\* the output says the flag was not recognized
SaysUnknownFlag(cmd) == cmd.out \in {"unknown option", "unrecognized option"}

\* C11: one install runs `lake update` at most twice; a second run, without
\* --reconfigure, happens only after a first run that failed with an
\* unrecognized-flag error; a failing last run raises DependencyError.
C11_RetryOnlyOnUnknownFlag ==
    last.op = "install" =>
        LET u == UpdateCommands(last)
        IN  /\ Len(u) <= 2
            /\ Len(u) = 2 =>
                  /\ u[1].args = <<"lake", "update", "--reconfigure">>
                  /\ u[1].rc /= 0
                  /\ SaysUnknownFlag(u[1])
                  /\ u[2].args = <<"lake", "update">>
            /\ (Len(u) >= 1 /\ u[Len(u)].rc /= 0)
                  => last.result = "DependencyError"

-----------------------------------------------------------------------------
(* Properties of LeanProject.install_dependency (SpecProject).             *)

\* lakefile.toml has an entry that stands for dep
RecordedInFile(file, dep) ==
    \E k \in 1..Len(file.entries) :
        /\ EntryFor(file.entries[k], dep)
        /\ (dep.version = None \/ PinOf(file.entries[k]) = dep.version)

\* the dependency list holds dep
RecordedInMemory(deps, dep) ==
    \E k \in 1..Len(deps) : SameDeclaration(deps[k], dep)

\* C12: after every install_dependency call of a project, returned or
\* raised, the requested declaration is in lakefile.toml exactly when it is
\* in the project's dependency list.
C12_FileAndMemoryAgree ==
    last.op = "install_dependency" =>
        ( RecordedInFile(fs[last.path].toml, last.dep)
            <=> RecordedInMemory(objs[last.obj].dependencies, last.dep) )

-----------------------------------------------------------------------------
(* Properties of clone (Spec).                                             *)

\* C13: a clone to a destination that exists, a file or a directory, empty
\* or not, raises ProjectInitError, copies nothing, runs no command, and
\* leaves the destination, the source and every object as they were.
C13_CloneToExistingFails ==
    [][ (last'.op = "clone" /\ fs[last'.path].exists)
        => ( /\ last'.result = "ProjectInitError"
             /\ last'.msg.kind = "destination exists"
             /\ last'.cmds = <<>>
             /\ fs' = fs
             /\ parent' = parent
             /\ objs' = objs ) ]_vars

C13_Witness ==
    /\ last.op = "clone"
    /\ last.start = "not-a-directory"
    /\ last.result = "ProjectInitError"
    /\ fs[last.path] = AFile

\* every object the caller holds stands on a directory with a marker
SourcesAreValid ==
    /\ \E i \in ObjIds : objs[i].alive
    /\ \A i \in ObjIds : objs[i].alive => HasMarker(fs[objs[i].path])

\* C14: a clone of a valid project to an absent destination, when the copy
\* gets through, leaves at the destination what the source holds, leaves
\* every other directory as it was, runs no command and returns a project
\* at the destination, which has a marker, named new_name or after the
\* destination; when the copy fails it raises ProjectInitError and returns
\* no project.
C14_CloneCopiesAndReturns ==
    [][ ( /\ last'.op = "clone"
          /\ ~fs[last'.path].exists
          /\ SourcesAreValid
          /\ PastPathChecks(last') )
        => ( /\ last'.cmds = <<>>
             /\ \A d \in Dirs \ {last'.path} : fs'[d] = fs[d]
             /\ IF last'.msg.kind = "copy failed"
                THEN /\ last'.result = "ProjectInitError"
                     /\ objs' = objs
                ELSE /\ last'.result = "ok"
                     /\ \E i \in ObjIds :
                           objs[i].alive /\ fs'[last'.path] = fs[objs[i].path]
                     /\ HasMarker(fs'[last'.path])
                     /\ objs'[last'.obj].alive
                     /\ objs'[last'.obj].path = last'.path
                     /\ objs'[last'.obj].name = last'.name ) ]_vars

C14_Witness ==
    /\ last.op = "clone"
    /\ last.start = "absent"
    /\ last.result = "ok"
    /\ objs[last.obj].path = last.path
    /\ fs[last.path].toml.exists
    /\ \E d \in Dirs \ {last.path} : fs[d] = fs[last.path]

-----------------------------------------------------------------------------
(* Properties of the loaded dependency list (SpecLoad).                    *)

\* a constructor has just returned the project objs[last.obj]
Loaded == last.op = "construct" /\ last.result = "ok"

\* the record yields a declaration: it has a name, not the project's own
Yields(pkg, projName) == pkg.dict /\ Truthy(pkg.name) /\ pkg.name /= projName

\* the declarations the records of the manifest stand for
FromManifest(m, projName) ==
    IF ~m.exists \/ Malformed(m) THEN {}
    ELSE { LeanDependencyConfig(extract_scope_and_name(m.packages[k])[1],
                                extract_scope_and_name(m.packages[k])[2],
                                None, FALSE) :
             k \in { j \in 1..Len(m.packages) : Yields(m.packages[j], projName) } }

\* the declarations the entries of lakefile.toml stand for
FromToml(file) ==
    { Flush(file.entries[k])[1] :
        k \in { j \in 1..Len(file.entries) : Flush(file.entries[j]) /= <<>> } }

\* how often the list holds a declaration equivalent to dep
Count(deps, dep) ==
    Cardinality({ k \in 1..Len(deps) : SameDeclaration(deps[k], dep) })

\* C15: after a load, every declaration a record of the manifest or an
\* entry of lakefile.toml stands for is in the list exactly once, also
\* when both sources, or several records or entries, stand for it.
C15_LoadedExactlyOnce ==
    Loaded =>
        \A dep \in FromManifest(fs[last.path].manifest, last.name)
                     \cup FromToml(fs[last.path].toml) :
            Count(objs[last.obj].dependencies, dep) = 1

C15_Witness ==
    /\ Loaded
    /\ \E dep \in FromManifest(fs[last.path].manifest, last.name)
                     \cap FromToml(fs[last.path].toml) :
          Count(objs[last.obj].dependencies, dep) = 1
    /\ Len(objs[last.obj].dependencies) = 2

\* C16: after a load, two declarations the sources stand for that have the
\* same scope and name and different versions, one of them unpinned or
\* both pinned, are both in the list; the check install makes on the same
\* lakefile.toml takes an unpinned request for the scope and name of a
\* pinned entry as already present.
C16_LoadKeepsEveryVersion ==
    Loaded =>
        LET file == fs[last.path].toml
            derived == FromManifest(fs[last.path].manifest, last.name)
                         \cup FromToml(file)
        IN  /\ \A a, b \in derived :
                  (a.scope = b.scope /\ a.name = b.name /\ a.version /= b.version)
                      => /\ RecordedInMemory(objs[last.obj].dependencies, a)
                         /\ RecordedInMemory(objs[last.obj].dependencies, b)
            /\ \A k \in 1..Len(file.entries) :
                  (TomlDecodes(file) /\ Truthy(PinOf(file.entries[k])))
                      => dependency_exists(file,
                             LeanDependencyConfig(EntryScope(file.entries[k]),
                                                  file.entries[k].name, None, FALSE))

C16_Witness ==
    /\ Loaded
    /\ LeanDependencyConfig("org", "pkg", None, FALSE)
           \in FromManifest(fs[last.path].manifest, last.name)
    /\ fs[last.path].toml.entries = <<OrgPkg("v1")>>
    /\ objs[last.obj].dependencies =
           << LeanDependencyConfig("org", "pkg", None, FALSE),
              LeanDependencyConfig("org", "pkg", "v1", FALSE) >>

\* the URL of a record: the first of url, git, gitUrl that is there
RecordUrl(pkg) ==
    IF pkg.url.present THEN pkg.url.path
    ELSE IF pkg.git.present THEN pkg.git.path
    ELSE IF pkg.gitUrl.present THEN pkg.gitUrl.path
    ELSE <<>>

\* what C17 says a record stands for: scope and name from the last two
\* non-empty segments of the URL path, ".git" taken off the name, or
\* "unknown" and the declared name
Expected(pkg) ==
    LET parts == SelectSeq(RecordUrl(pkg), LAMBDA x : x /= "")
        n == Len(parts)
    IN  IF n >= 2
        THEN LeanDependencyConfig(parts[n - 1], GitSuffixStripped(parts[n]),
                                  None, FALSE)
        ELSE LeanDependencyConfig("unknown", pkg.name, None, FALSE)

\* C17: after a load over a well-formed manifest, every record with a name
\* other than the project's own has its declaration, scope and name taken
\* from the URL or the fallback, in the list; and the list holds nothing
\* but these and the declarations of lakefile.toml, so a record with the
\* project's own name adds nothing.
C17_RecordsGiveScopeAndName ==
    (Loaded /\ ~Malformed(fs[last.path].manifest)) =>
        LET m == fs[last.path].manifest
            deps == objs[last.obj].dependencies
            yielding == { k \in 1..Len(m.packages) :
                            Yields(m.packages[k], last.name) }
        IN  /\ \A k \in yielding :
                  \E j \in 1..Len(deps) : deps[j] = Expected(m.packages[k])
            /\ \A j \in 1..Len(deps) :
                  \/ \E k \in yielding : deps[j] = Expected(m.packages[k])
                  \/ deps[j] \in FromToml(fs[last.path].toml)

C17_Witness ==
    /\ Loaded
    /\ ~fs[last.path].toml.exists
    /\ Len(fs[last.path].manifest.packages) = 2
    /\ fs[last.path].manifest.packages[1].name = last.name
    /\ fs[last.path].manifest.packages[2].git.present
    /\ objs[last.obj].dependencies = <<LeanDependencyConfig("org", "pkg", None, FALSE)>>

-----------------------------------------------------------------------------
(* Properties of install_dependency on a broken config file and of the     *)
(* cache prefetch (SpecInstall).                                           *)

\* lakefile.toml is there and is not TOML: broken text, or a table that is
\* defined twice
NotParseable(file) ==
    /\ file.exists
    /\ \/ ~file.ok
       \/ \E j, k \in 1..Len(file.entries) :
             /\ j /= k
             /\ file.entries[j].shape = "table"
             /\ file.entries[k].shape = "table"
             /\ file.entries[j].name = file.entries[k].name

\* C18: an install over a lakefile.toml that is not parseable raises
\* DependencyError, leaves the file and the rest of the disk as they were
\* and runs no command, update and cache prefetch included.
C18_BrokenConfigIsFatal ==
    [][ (last'.op = "install" /\ NotParseable(ConfigOf(fs, last')))
        => ( /\ last'.result = "DependencyError"
             /\ last'.msg.kind = "invalid toml"
             /\ last'.cmds = <<>>
             /\ fs' = fs ) ]_vars

C18_Witness ==
    /\ last.op = "install"
    /\ last.result = "DependencyError"
    /\ last.cmds = <<>>
    /\ last.dep.cache
    /\ ~fs[last.path].toml.ok

\* the `lake exe cache get` commands a call ran
CacheCommands(call) ==
    SelectSeq(call.cmds, LAMBDA c : c.args = <<"lake", "exe", "cache", "get">>)

\* C20: an install runs `lake exe cache get` at most once, only for a
\* declaration with the cache flag, only as its last command and right
\* behind an update that exited 0; it then returns normally whatever the
\* exit code of the prefetch.  Without the flag the command is not run.
C20_CachePrefetchIsBestEffort ==
    last.op = "install" =>
        LET n == Len(last.cmds)
        IN  /\ Len(CacheCommands(last)) <= 1
            /\ ~last.dep.cache => CacheCommands(last) = <<>>
            /\ CacheCommands(last) /= <<>> =>
                  /\ last.dep.cache
                  /\ n >= 2
                  /\ last.cmds[n].args = <<"lake", "exe", "cache", "get">>
                  /\ last.cmds[n - 1].args[2] = "update"
                  /\ last.cmds[n - 1].rc = 0
                  /\ last.result = "ok"

C20_Witness ==
    /\ last.op = "install"
    /\ last.dep.cache
    /\ last.result = "ok"
    /\ Len(last.cmds) = 3
    /\ last.cmds[3].args = <<"lake", "exe", "cache", "get">>
    /\ last.cmds[3].rc /= 0

-----------------------------------------------------------------------------
(* Properties of the constructor's error messages (Spec).                  *)

\* the names in the directory, as a listing shows them
NamesIn(d) ==
    { n \in {"lakefile.lean", "lakefile.toml", "lake-manifest.json", "other"} :
        \/ n = "lakefile.lean" /\ d.lean
        \/ n = "lakefile.toml" /\ d.toml.exists
        \/ n = "lake-manifest.json" /\ d.manifest.exists
        \/ n = "other" /\ d.other }

\* C19: a constructor that ran `lake new` or `lake init`: when the command
\* exited 0 and the project path has no marker, it raises ProjectInitError
\* with a message that lists the directory, when there is one to list, and
\* reports every command run with its command line, exit code and output;
\* when the command exited non-zero, it raises ProjectInitError with a
\* message that reports that command, its exit code and its output.
C19_InitFailureIsReported ==
    ( /\ last.op = "construct"
      /\ last.start \in {"absent", "empty-existing"}
      /\ PastPathChecks(last) )
    => LET c == last.cmds[1]
           d == fs[last.path]
           shown == [k \in 1..Len(last.cmds) |->
                       [args |-> last.cmds[k].args, rc |-> last.cmds[k].rc,
                        out |-> last.cmds[k].out]]
       IN  /\ (c.rc = 0 /\ ~HasMarker(d))
                 => /\ last.result = "ProjectInitError"
                    /\ last.msg.kind = "no lake files"
                    /\ last.msg.trail = shown
                    /\ (d.exists /\ ~d.isfile)
                          => /\ last.msg.listing.readable
                             /\ last.msg.listing.names = NamesIn(d)
           /\ c.rc /= 0
                 => /\ last.result = "ProjectInitError"
                    /\ last.msg.kind = "command failed"
                    /\ last.msg.trail = shown

C19_Witness ==
    /\ last.op = "construct"
    /\ last.start = "empty-existing"
    /\ last.result = "ProjectInitError"
    /\ last.msg.kind = "no lake files"
    /\ last.cmds[1].rc = 0
    /\ last.msg.listing.readable
    /\ last.msg.listing.names = {"other"}
    /\ Len(last.msg.trail) = 1

-----------------------------------------------------------------------------
(* Properties of the block install appends (SpecInstall).                  *)

\* the config file an install starts from: the file on disk, or the
\* skeleton the call writes first when there is none
ConfigBefore(f, call) ==
    IF ConfigOf(f, call).exists THEN ConfigOf(f, call)
    ELSE [exists |-> TRUE, ok |-> TRUE, tail |-> "nl", entries |-> <<>>]

\* C21: an install that finds no entry for its declaration leaves a file
\* that starts with everything the old one held, entry for entry, followed
\* by one [[require]] block with the declaration's name and scope and, only
\* for a non-empty version, that version as rev; the file ends with a
\* newline and has one entry more.
C21_AppendKeepsContent ==
    [][ (last'.op = "install" /\ last'.file = "appended")
        => LET old == ConfigBefore(fs, last')
               new == ConfigOf(fs', last')
               dep == last'.dep
               n == Len(old.entries)
           IN  /\ new.exists
               /\ new.ok = old.ok
               /\ new.tail = "nl"
               /\ Len(new.entries) = n + 1
               /\ \A k \in 1..n : new.entries[k] = old.entries[k]
               /\ new.entries[n + 1] =
                      [shape |-> "require", name |-> dep.name,
                       scope |-> dep.scope,
                       rev |-> IF dep.version \in {None, ""} THEN None
                               ELSE dep.version,
                       branch |-> None, tag |-> None, git |-> NoUrl] ]_vars

C21_Witness ==
    /\ last.op = "install"
    /\ last.file = "appended"
    /\ Len(fs[last.path].toml.entries) = 2
    /\ fs[last.path].toml.entries[1].shape = "table"
    /\ fs[last.path].toml.entries[2].shape = "require"
    /\ fs[last.path].toml.entries[2].rev = "v1"

-----------------------------------------------------------------------------
(* Properties of install followed by a load (SpecRoundTrip).               *)

\* the list holds a declaration with dep's scope and name and, for a
\* non-empty version, dep's version
LoadedBack(deps, dep) ==
    \E k \in 1..Len(deps) :
        /\ deps[k].scope = dep.scope
        /\ deps[k].name = dep.name
        /\ dep.version \notin {None, ""} => deps[k].version = dep.version

\* C22: a constructor that returns right after an install that returned,
\* over the same path, has in its dependency list a declaration with the
\* scope and name of the installed one, and with its version when that is
\* set, whatever was installed before.
C22_InstallThenLoadRoundTrips ==
    [][ ( /\ last.op = "install"
          /\ last.result = "ok"
          /\ last'.op = "construct"
          /\ last'.result = "ok"
          /\ last'.path = last.path )
        => LoadedBack(objs'[last'.obj].dependencies, last.dep) ]_vars

C22_Witness ==
    /\ last.op = "construct"
    /\ last.result = "ok"
    /\ Len(fs[last.path].toml.entries) = 2
    /\ fs[last.path].toml.entries[2].rev = "v2"
    /\ \E k \in 1..Len(objs[last.obj].dependencies) :
          objs[last.obj].dependencies[k] =
              LeanDependencyConfig("org", "lib", "v2", FALSE)

-----------------------------------------------------------------------------
(* Properties of the identifier (SpecIdentifier).                          *)

\* C23: the identifier of a declaration is scope, "/", name when the
\* version is absent (None or the empty string) and scope, "/", name, "@",
\* version when a version is set; the same declaration with the other
\* cache flag has the same identifier.
C23_IdentifierFormat ==
    last.op = "identifier" =>
        LET dep == last.dep
        IN  /\ last.result =
                  IF dep.version \in {None, ""}
                  THEN dep.scope \o "/" \o dep.name
                  ELSE dep.scope \o "/" \o dep.name \o "@" \o dep.version
            /\ identifier([dep EXCEPT !.cache = ~dep.cache]) = last.result

C23_Witness ==
    /\ last.op = "identifier"
    /\ last.dep = LeanDependencyConfig("org", "pkg", "1.2.3", TRUE)
    /\ last.result = "org/pkg@1.2.3"

-----------------------------------------------------------------------------
(* Properties of two installs side by side and of the order of the steps   *)
(* of one install (SpecConcurrent).                                        *)

\* the [[require]] block that stands for dep in the file
BlockOf(dep) ==
    [shape |-> "require", name |-> dep.name, scope |-> dep.scope,
     rev |-> IF dep.version \in {None, ""} THEN None ELSE dep.version,
     branch |-> None, tag |-> None, git |-> NoUrl]

HasBlockOf(file, dep) ==
    \E i \in 1..Len(file.entries) : file.entries[i] = BlockOf(dep)

\* both calls wrote their block
BothWrote == \A k \in Procs : procs[k].file = "appended"

\* C24: nothing ties the read of a call to its write.  Once both calls
\* have written, lakefile.toml is what one of them read, plus its block:
\* the block of the other call is there only if it was in what that call
\* read, and is lost if the call read before the other one wrote.  The
\* witness is a state where both calls wrote and returned and the file
\* lacks the block of one of them.
C24_LastWriterKeepsWhatItRead ==
    BothWrote =>
        \E k \in Procs :
            /\ fs["p"].toml.entries =
                   Append(procs[k].text.entries, BlockOf(procs[k].dep))
            /\ \A j \in Procs \ {k} :
                   HasBlockOf(fs["p"].toml, procs[j].dep)
                       <=> HasBlockOf(procs[k].text, procs[j].dep)

C24_Witness ==
    /\ BothWrote
    /\ \A k \in Procs : procs[k].pc = "done" /\ procs[k].result = "ok"
    /\ \E k \in Procs : ~HasBlockOf(fs["p"].toml, procs[k].dep)

\* the positions of the commands of a call that are `lake exe cache get`
CachePositions(cmds) ==
    { i \in 1..Len(cmds) : cmds[i].args = <<"lake", "exe", "cache", "get">> }

\* C25: in every call, no command has run before the file is there and
\* the entry check and append are done; a call whose file parsed runs
\* `lake update --reconfigure` as its first command, whether it appended
\* its block or found the entry and wrote nothing; a call whose file did
\* not parse runs nothing; a cache prefetch is the last command.
C25_StepsAreOrdered ==
    \A k \in Procs :
        LET pr == procs[k]
        IN  /\ pr.pc \in {"start", "create", "read", "write"}
                  => pr.cmds = <<>> /\ pr.file = None
            /\ pr.pc \in {"read", "write", "update", "done"}
                  => fs["p"].toml.exists
            /\ pr.pc = "update"
                  => pr.cmds = <<>> /\ pr.file \in {"present", "appended"}
            /\ pr.pc = "done"
                  => IF pr.file = "DependencyError" THEN pr.cmds = <<>>
                     ELSE /\ pr.file \in {"present", "appended"}
                          /\ pr.cmds /= <<>>
                          /\ pr.cmds[1].args = <<"lake", "update", "--reconfigure">>
                          /\ CachePositions(pr.cmds) \subseteq {Len(pr.cmds)} \ {1}

C25_Witness ==
    \E k \in Procs :
        /\ procs[k].pc = "done"
        /\ procs[k].file = "present"
        /\ procs[k].result = "ok"
        /\ Len(procs[k].cmds) = 2
        /\ procs[k].cmds[1].args = <<"lake", "update", "--reconfigure">>
        /\ procs[k].cmds[2].args = <<"lake", "exe", "cache", "get">>

====
